---- MODULE Spec2Model ----
(***************************************************************************)
(* PromptAPI (src/app.py): a Flask gateway that resolves a request to an   *)
(* endpoint config, forwards its text to an LLM, normalises the reply and  *)
(* logs the call to MongoDB.                                               *)
(*                                                                         *)
(* Text is modelled as a sequence of tokens.  In an LLM reply the tokens   *)
(* are "{" and "}" (braces), "," (comma), "a" (the member "a":"1"), "o"    *)
(* (the member "original_text":"z") and "x" (any other text).  A Python    *)
(* dict is a function from key strings to text; None is the empty tuple    *)
(* and a present value v is <<v>>.                                         *)
(***************************************************************************)
EXTENDS Integers, Sequences, FiniteSets, TLC

VARIABLES configs, now, config, config_file, openai, client, collection, logs, last

vars == <<configs, now, config, config_file, openai, client, collection, logs, last>>

(* ------------------------------ bounds -------------------------------- *)

\* longest LLM reply, in tokens
MaxLen == 4
\* most entries the log collection holds
MaxLogs == 1
\* last tick of the wall clock
MaxClock == 3

(* ------------------------------ values -------------------------------- *)

None == <<>>
Some(v) == <<v>>

EmptyDict == <<>>

Tokens == {"{", "}", ",", "a", "o", "x"}

RECURSIVE SeqsUpTo(_, _)
SeqsUpTo(S, n) ==
    IF n = 0 THEN {<<>>}
    ELSE LET shorter == SeqsUpTo(S, n - 1)
         IN  shorter \cup {Append(s, t) : s \in {q \in shorter : Len(q) = n - 1}, t \in S}

\* every LLM reply of at most MaxLen tokens
Contents == SeqsUpTo(Tokens, MaxLen)

\* the text field of a request: empty, or one of two texts
Texts == {<<>>, <<"h", "i">>, <<"y", "o">>}

\* request.json: None (no JSON body) or an object with an optional text field
BodiesOf(texts) == {None} \cup {Some(EmptyDict)} \cup {Some([text |-> t]) : t \in texts}

Names == {"greet", "other"}
Paths == {"/YiDiJiuYi/p", "/YiDiJiuYi/q"}

\* an endpoint config as stored: enabled and system_prompt may be absent
Cfgs ==
    [path : Paths, enabled : {None, Some(TRUE), Some(FALSE)},
     system_prompt : {None, Some(<<"Echo JSON">>)}, created_at : {0}, updated_at : {0}]

\* api_configs.json: a dict in insertion order, as a sequence of <<name, config>>
ConfigFiles ==
    {<<>>} \cup {<<[name |-> n, cfg |-> c]>> : n \in Names, c \in Cfgs}
           \cup {<<[name |-> "greet", cfg |-> c], [name |-> "other", cfg |-> d]>> :
                    c \in Cfgs, d \in Cfgs}

(* ------------------------- response normalisation --------------------- *)

\* the positions of token t in s at or after position from
Positions(s, t, from) == {i \in from..Len(s) : s[i] = t}

Min(S) == CHOOSE m \in S : \A n \in S : m <= n

\* re.search(r'\{[\s\S]*?\}', content): the leftmost "{" that some "}" follows,
\* extended lazily to the first such "}"; None when there is no match
re_search(content) ==
    LET starts == {i \in Positions(content, "{", 1) : Positions(content, "}", i + 1) # {}}
    IN  IF starts = {} THEN None
        ELSE LET i == Min(starts)
                 j == Min(Positions(content, "}", i + 1))
             IN  Some(SubSeq(content, i, j))

MemberKey(t) == IF t = "a" THEN "a" ELSE "original_text"
MemberValue(t) == IF t = "a" THEN <<"1">> ELSE <<"z">>

\* d with d[k] = v, as the Python assignment d[k] = v
DictSet(d, k, v) == [x \in DOMAIN d \cup {k} |-> IF x = k THEN v ELSE d[x]]

\* the members of a JSON object, after "{" : member ("," member)* ; a later
\* duplicate key overwrites; None stands for json.JSONDecodeError
RECURSIVE ParseMembers(_, _, _)
ParseMembers(toks, expectMember, acc) ==
    IF toks = <<>> THEN (IF expectMember THEN None ELSE Some(acc))
    ELSE IF expectMember
         THEN IF Head(toks) \in {"a", "o"}
              THEN ParseMembers(Tail(toks), FALSE,
                                DictSet(acc, MemberKey(Head(toks)), MemberValue(Head(toks))))
              ELSE None
         ELSE IF Head(toks) = "," THEN ParseMembers(Tail(toks), TRUE, acc) ELSE None

\* json.loads on a text that starts with "{" and ends with "}"
json_loads(text) ==
    LET inner == SubSeq(text, 2, Len(text) - 1)
    IN  IF inner = <<>> THEN Some(EmptyDict) ELSE ParseMembers(inner, TRUE, EmptyDict)

extract_json_from_response(content) ==
    LET json_match == re_search(content)
    IN  IF json_match # None THEN json_loads(json_match[1]) ELSE None

\* Python truthiness of an optional dict: None and {} are falsy
Truthy(optDict) == optDict # None /\ DOMAIN optDict[1] # {}

(* ------------------------------ log sink ------------------------------ *)

\* MongoLogger.connect: returns early when logging is disabled, holds a client
\* and a collection when the server answers, and resets both on any failure
connect(cfg, cl, coll, connOk) ==
    IF ~cfg.log_enabled THEN [client |-> cl, collection |-> coll, attempt |-> "skipped"]
    ELSE IF connOk
         THEN [client |-> Some([url |-> cfg.mongodb_url, closed |-> FALSE]),
               collection |-> Some(cfg.mongodb_url), attempt |-> "connected"]
         ELSE [client |-> None, collection |-> None, attempt |-> "failed"]

\* MongoLogger.reconnect: closes the client it holds, then connects
reconnect(cfg, cl, coll, connOk) ==
    connect(cfg, IF cl # None THEN Some([cl[1] EXCEPT !.closed = TRUE]) ELSE cl, coll, connOk)

\* variant: the insert is outside the try, so its failure reaches the caller
log_api_call_raises(cfg, coll, store, entry, insertOk) ==
    IF ~cfg.log_enabled \/ coll = None THEN [logs |-> store, outcome |-> "skipped", raised |-> FALSE]
    ELSE IF insertOk THEN [logs |-> Append(store, entry), outcome |-> "written", raised |-> FALSE]
    ELSE [logs |-> store, outcome |-> "failed", raised |-> TRUE]

\* MongoLogger.log_api_call: a no-op when logging is disabled or no collection
\* is held; an insert that fails is caught and printed
log_api_call(cfg, coll, store, entry, insertOk) ==
    IF ~cfg.log_enabled \/ coll = None THEN [logs |-> store, outcome |-> "skipped", raised |-> FALSE]
    ELSE IF insertOk THEN [logs |-> Append(store, entry), outcome |-> "written", raised |-> FALSE]
    ELSE [logs |-> store, outcome |-> "failed", raised |-> FALSE]

(* ------------------------------ dispatch ------------------------------ *)

\* ConfigManager.get_config: configs.get(name)
get_config(cfgs, name) ==
    LET hits == {i \in 1..Len(cfgs) : cfgs[i].name = name}
    IN  IF hits = {} THEN None ELSE Some(cfgs[Min(hits)].cfg)

\* variant: the enabled flag is not consulted
Enabled_ignored(cfg) == TRUE

\* config.get('enabled', True)
Enabled(cfg) == IF cfg.enabled = None THEN TRUE ELSE cfg.enabled[1]

\* call_openai_api: the reply text, or a raised Exception("API call failed: ...")
call_openai_api(llm) ==
    IF llm.ok THEN [raised |-> FALSE, content |-> llm.content]
    ELSE [raised |-> TRUE, content |-> <<"API call failed">>]

\* variant: original_text is set with setdefault, so a key in the reply wins
normalize_keeps_key(response_content, user_input) ==
    LET parsed_response == extract_json_from_response(response_content)
    IN  IF Truthy(parsed_response)
        THEN (IF "original_text" \in DOMAIN parsed_response[1] THEN parsed_response[1]
              ELSE DictSet(parsed_response[1], "original_text", user_input))
        ELSE [response |-> response_content, original_text |-> user_input]

\* the response built from the reply: the parsed object with original_text set
\* when the parse result is truthy, the wrapped raw reply otherwise
normalize(response_content, user_input) ==
    LET parsed_response == extract_json_from_response(response_content)
    IN  IF Truthy(parsed_response)
        THEN DictSet(parsed_response[1], "original_text", user_input)
        ELSE [response |-> response_content, original_text |-> user_input]

\* what the except branch of dynamic_api leaves behind for an exception e
Caught(request_data, e, called) ==
    [status |-> 500, response_data |-> [error |-> e], request_data |-> request_data,
     success |-> FALSE, error_message |-> Some(e), llm_called |-> called]

\* variant: the emptiness check is left out
Falsy_never(user_input) == FALSE

\* not user_input
Falsy(user_input) == user_input = <<>>

\* the try/except of dynamic_api for a resolved, enabled config
try_block(cfg, body, llm) ==
    IF body = None THEN Caught(None, <<"no JSON object in the request">>, FALSE)
    ELSE LET data == body[1]
             user_input == IF "text" \in DOMAIN data THEN data.text ELSE <<>>
         IN  IF Falsy(user_input)
             THEN [status |-> 400, response_data |-> [error |-> <<"input text is empty">>],
                   request_data |-> body, success |-> FALSE,
                   error_message |-> Some(<<"input text is empty">>), llm_called |-> FALSE]
             ELSE IF cfg.system_prompt = None THEN Caught(body, <<"'system_prompt'">>, FALSE)
             ELSE LET reply == call_openai_api(llm)
                  IN  IF reply.raised THEN Caught(body, reply.content, TRUE)
                      ELSE [status |-> 200,
                            response_data |-> normalize(reply.content, user_input),
                            request_data |-> body, success |-> TRUE,
                            error_message |-> None, llm_called |-> TRUE]

\* variant: success is not passed on and keeps log_api_call's default, True
log_entry_success_default(config_name, r) ==
    [config_name |-> config_name, request_data |-> r.request_data,
     response_data |-> r.response_data, success |-> TRUE,
     error_message |-> r.error_message]

\* the arguments the finally block hands to log_api_call, as the stored entry
log_entry(config_name, r) ==
    [config_name |-> config_name, request_data |-> r.request_data,
     response_data |-> r.response_data, success |-> r.success,
     error_message |-> r.error_message]

\* variant: the log call sits after the try instead of in a finally, so the
\* early return of the 400 response skips it
finally_block_not_on_return(syscfg, coll, store, config_name, r, insertOk) ==
    IF r.status = 400 THEN [logs |-> store, outcome |-> "none", raised |-> FALSE]
    ELSE log_api_call(syscfg, coll, store, log_entry(config_name, r), insertOk)

\* the finally block of dynamic_api: one call of log_api_call, whatever the
\* try/except did
finally_block(syscfg, coll, store, config_name, r, insertOk) ==
    log_api_call(syscfg, coll, store, log_entry(config_name, r), insertOk)

\* dynamic_api: 404 before the try when the name resolves to no enabled config;
\* otherwise the try/except decides the response and the finally logs the call.
\* An exception leaving the finally block would replace the response.
dynamic_api(cfgs, syscfg, coll, store, config_name, body, llm, insertOk) ==
    LET found == get_config(cfgs, config_name)
    IN  IF found = None \/ ~Enabled(found[1])
        THEN [status |-> 404, body |-> [error |-> <<"endpoint missing or disabled">>],
              logs |-> store, log |-> "none", llm_called |-> FALSE, resolved |-> FALSE]
        ELSE LET r == try_block(found[1], body, llm)
                 lg == finally_block(syscfg, coll, store, config_name, r, insertOk)
             IN  IF lg.raised
                 THEN [status |-> 500, body |-> [error |-> <<"Internal Server Error">>],
                       logs |-> lg.logs, log |-> lg.outcome, llm_called |-> r.llm_called,
                       resolved |-> TRUE]
                 ELSE [status |-> r.status, body |-> r.response_data, logs |-> lg.logs,
                       log |-> lg.outcome, llm_called |-> r.llm_called, resolved |-> TRUE]

\* legacy_api: the first config, in stored order, whose path is the target
legacy_lookup(cfgs, target_path) ==
    LET hits == {i \in 1..Len(cfgs) : cfgs[i].cfg.path = target_path}
    IN  IF hits = {} THEN None ELSE Some(cfgs[Min(hits)].name)

legacy_api(cfgs, syscfg, coll, store, target_path, body, llm, insertOk) ==
    LET config_name == legacy_lookup(cfgs, target_path)
    IN  IF config_name = None
        THEN [status |-> 404, body |-> [error |-> <<"endpoint missing">>], logs |-> store,
              log |-> "none", llm_called |-> FALSE, resolved |-> FALSE]
        ELSE dynamic_api(cfgs, syscfg, coll, store, config_name[1], body, llm, insertOk)

\* POST /api/<config_name>
DynamicApi(config_name, body, llm, insertOk) ==
    /\ Len(logs) < MaxLogs
    /\ \E r \in {dynamic_api(configs, config, collection, logs, config_name, body, llm, insertOk)} :
           /\ logs' = r.logs
           /\ last' = [op |-> "dispatch", route |-> "api", target |-> config_name,
                       config_name |-> IF r.resolved THEN Some(config_name) ELSE None,
                       request |-> body, status |-> r.status, body |-> r.body,
                       log |-> r.log, llm_called |-> r.llm_called,
                       reply |-> IF r.llm_called THEN Some(llm) ELSE None]
    /\ UNCHANGED <<configs, now, config, config_file, openai, client, collection>>

\* POST /YiDiJiuYi/<endpoint>
LegacyApi(target_path, body, llm, insertOk) ==
    /\ Len(logs) < MaxLogs
    /\ \E r \in {legacy_api(configs, config, collection, logs, target_path, body, llm, insertOk)} :
           /\ logs' = r.logs
           /\ last' = [op |-> "dispatch", route |-> "legacy", target |-> target_path,
                       config_name |-> IF r.resolved THEN legacy_lookup(configs, target_path)
                                       ELSE None,
                       request |-> body, status |-> r.status, body |-> r.body,
                       log |-> r.log, llm_called |-> r.llm_called,
                       reply |-> IF r.llm_called THEN Some(llm) ELSE None]
    /\ UNCHANGED <<configs, now, config, config_file, openai, client, collection>>

(* --------------------------- system settings -------------------------- *)

SettingKeys == {"openai_api_url", "openai_api_key", "log_enabled", "mongodb_url"}

Settings ==
    [openai_api_url : {"u1", "u2"}, openai_api_key : {"k1", "k2"},
     log_enabled : BOOLEAN, mongodb_url : {"m1", "m2"}]

\* SystemConfigManager.load_config when system_config.json does not exist
DefaultSettings ==
    [openai_api_url |-> "u1", openai_api_key |-> "k1", log_enabled |-> TRUE,
     mongodb_url |-> "m1"]

\* the JSON bodies of a settings update: no body, no key, one key, or all keys
SettingsUpdates ==
    {None} \cup {Some([k \in K |-> full[k]]) :
                    full \in Settings,
                    K \in {{}, SettingKeys} \cup {{k} : k \in SettingKeys}}

\* dict.update: a shallow merge
Merge(cfg, d) == [k \in DOMAIN cfg \cup DOMAIN d |-> IF k \in DOMAIN d THEN d[k] ELSE cfg[k]]

\* SystemConfigManager.apply_config: the openai module's globals
apply_config(cfg) == [api_base |-> cfg.openai_api_url, api_key |-> cfg.openai_api_key]

\* variant: save_config does not call apply_config
update_config_no_apply(cfg, file, oa, data, fault) ==
    LET merged == Merge(cfg, data)
    IN  IF fault = "none"
        THEN [config |-> merged, file |-> [state |-> "ok", data |-> merged],
              openai |-> oa, raised |-> FALSE]
        ELSE [config |-> merged,
              file |-> IF fault = "open" THEN file ELSE [file EXCEPT !.state = "corrupt"],
              openai |-> oa, raised |-> TRUE]

\* SystemConfigManager.update_config and save_config: merge in memory, write
\* the file, apply.  fault is "none", "open" (the file cannot be opened) or
\* "write" (the dump fails after the file was truncated)
update_config(cfg, file, oa, data, fault) ==
    LET merged == Merge(cfg, data)
    IN  IF fault = "none"
        THEN [config |-> merged, file |-> [state |-> "ok", data |-> merged],
              openai |-> apply_config(merged), raised |-> FALSE]
        ELSE [config |-> merged,
              file |-> IF fault = "open" THEN file ELSE [file EXCEPT !.state = "corrupt"],
              openai |-> oa, raised |-> TRUE]

\* POST /system-config/update
UpdateSystemConfig(data, fault, connOk) ==
    /\ UNCHANGED <<configs, now, logs>>
    /\ IF data = None
       THEN /\ UNCHANGED <<config, config_file, openai, client, collection>>
            /\ last' = [op |-> "update_system_config", success |-> FALSE, attempt |-> "none"]
       ELSE \E u \in {update_config(config, config_file, openai, data[1], fault)} :
                /\ config' = u.config
                /\ config_file' = u.file
                /\ openai' = u.openai
                /\ IF u.raised
                   THEN /\ UNCHANGED <<client, collection>>
                        /\ last' = [op |-> "update_system_config", success |-> FALSE,
                                    attempt |-> "none"]
                   ELSE \E c \in {reconnect(u.config, client, collection, connOk)} :
                            /\ client' = c.client
                            /\ collection' = c.collection
                            /\ last' = [op |-> "update_system_config", success |-> TRUE,
                                        attempt |-> c.attempt]

\* GET /api/test-mongodb
TestMongodb(connOk) ==
    \E c \in {reconnect(config, client, collection, connOk)} :
        /\ client' = c.client
        /\ collection' = c.collection
        /\ last' = [op |-> "test_mongodb", success |-> (c.collection # None),
                    attempt |-> c.attempt]
        /\ UNCHANGED <<configs, now, config, config_file, openai, logs>>

(* ------------------------------ config store -------------------------- *)

\* the index of name in the store, 0 when absent
IndexOf(cfgs, name) ==
    LET hits == {i \in 1..Len(cfgs) : cfgs[i].name = name}
    IN  IF hits = {} THEN 0 ELSE Min(hits)

\* the bodies of POST /config/add and /config/edit: name may be absent or ""
StoreNames == {None, Some("")} \cup {Some(n) : n \in Names}
StoreData ==
    [name : StoreNames, path : Paths, enabled : {Some(TRUE), Some(FALSE)},
     system_prompt : {Some(<<"Echo JSON">>)}]

Stored(data, created, updated) ==
    [path |-> data.path, enabled |-> data.enabled, system_prompt |-> data.system_prompt,
     created_at |-> created, updated_at |-> updated]

\* Python truthiness of data.get('name')
NameGiven(data) == data.name # None /\ data.name[1] # ""

\* ConfigManager.add_config: stamps and stores under name, whatever is there
manager_add_config(cfgs, name, data, t) ==
    LET i == IndexOf(cfgs, name)
        entry == [name |-> name, cfg |-> Stored(data, t, t)]
    IN  IF i = 0 THEN Append(cfgs, entry) ELSE [cfgs EXCEPT ![i] = entry]

\* variant: the handler does not look the name up before adding
add_config_unguarded(cfgs, data, t) ==
    IF NameGiven(data)
    THEN [configs |-> manager_add_config(cfgs, data.name[1], data, t), success |-> TRUE]
    ELSE [configs |-> cfgs, success |-> FALSE]

\* add_config (POST): adds only a non-empty name that is not yet stored
add_config(cfgs, data, t) ==
    IF NameGiven(data) /\ IndexOf(cfgs, data.name[1]) = 0
    THEN [configs |-> manager_add_config(cfgs, data.name[1], data, t), success |-> TRUE]
    ELSE [configs |-> cfgs, success |-> FALSE]

\* ConfigManager.update_config: replaces a stored entry, keeping its created_at
manager_update_config(cfgs, name, data, t) ==
    LET i == IndexOf(cfgs, name)
    IN  IF i = 0 THEN cfgs
        ELSE [cfgs EXCEPT ![i] = [name |-> name,
                                  cfg |-> Stored(data, cfgs[i].cfg.created_at, t)]]

\* ConfigManager.delete_config
manager_delete_config(cfgs, name) ==
    LET i == IndexOf(cfgs, name)
    IN  IF i = 0 THEN cfgs ELSE SubSeq(cfgs, 1, i - 1) \o SubSeq(cfgs, i + 1, Len(cfgs))

\* POST /config/add
AddConfig(data) ==
    /\ \E r \in {add_config(configs, data, now)} :
           /\ configs' = r.configs
           /\ last' = [op |-> "add_config", name |-> data.name, success |-> r.success]
    /\ UNCHANGED <<now, config, config_file, openai, client, collection, logs>>

\* POST /config/edit/<name>
EditConfig(name, data) ==
    /\ configs' = manager_update_config(configs, name, data, now)
    /\ last' = [op |-> "edit_config", name |-> Some(name), success |-> TRUE]
    /\ UNCHANGED <<now, config, config_file, openai, client, collection, logs>>

\* POST /config/delete/<name>
DeleteConfig(name) ==
    /\ configs' = manager_delete_config(configs, name)
    /\ last' = [op |-> "delete_config", name |-> Some(name), success |-> TRUE]
    /\ UNCHANGED <<now, config, config_file, openai, client, collection, logs>>

\* the wall clock read by datetime.now() advances
Tick ==
    /\ now < MaxClock
    /\ now' = now + 1
    /\ UNCHANGED <<configs, config, config_file, openai, client, collection, logs, last>>

(* ------------------------------ start-up ------------------------------ *)

\* module load: ConfigManager, SystemConfigManager and MongoLogger are built
\* from the two files; the logger connects once
Boot(cfgFile, sysFile, connOk) ==
    LET loaded == IF sysFile.state = "ok" THEN sysFile.data ELSE DefaultSettings
        c == connect(loaded, None, None, connOk)
    IN  /\ configs = cfgFile
        /\ now = 0
        /\ config = loaded
        /\ config_file = sysFile
        /\ openai = apply_config(loaded)
        /\ client = c.client
        /\ collection = c.collection
        /\ logs = <<>>
        /\ last = [op |-> "start"]

NoFile == [state |-> "absent", data |-> DefaultSettings]
File(s) == [state |-> "ok", data |-> s]

(* --------------------------- specifications --------------------------- *)

\* the outcomes of the LLM call tried under Spec: a failure, a plain reply, an
\* object reply that carries its own original_text, and the empty object
SampleReplies == {<<"x">>, <<"{", "o", "}">>, <<"{", "}">>}
LLMOutcomes(replies) ==
    {[ok |-> FALSE, content |-> <<>>]} \cup {[ok |-> TRUE, content |-> c] : c \in replies}

\* a request and what the LLM would answer: the answer is varied only when the
\* request carries a text
Requests ==
    {[body |-> b, llm |-> [ok |-> FALSE, content |-> <<>>]] : b \in BodiesOf({<<>>})}
    \cup {[body |-> Some([text |-> <<"h", "i">>]), llm |-> l] : l \in LLMOutcomes(SampleReplies)}

\* dispatch over every config file of at most two endpoints, with logging on
\* or off and the log store reachable or not at start-up
Init ==
    \E f \in ConfigFiles, le \in BOOLEAN, connOk \in BOOLEAN :
        Boot(f, File([DefaultSettings EXCEPT !.log_enabled = le]), connOk)

Next ==
    \/ \E n \in Names, rq \in Requests, insertOk \in BOOLEAN :
            DynamicApi(n, rq.body, rq.llm, insertOk)
    \/ \E p \in Paths, rq \in Requests, insertOk \in BOOLEAN :
            LegacyApi(p, rq.body, rq.llm, insertOk)

Spec == Init /\ [][Next]_vars

\* response normalisation over every reply of at most MaxLen tokens
InitNorm ==
    Boot(<<[name |-> "greet",
            cfg |-> [path |-> "/YiDiJiuYi/p", enabled |-> Some(TRUE),
                     system_prompt |-> Some(<<"Echo JSON">>), created_at |-> 0,
                     updated_at |-> 0]]>>,
         File([DefaultSettings EXCEPT !.log_enabled = FALSE]), FALSE)

NextNorm ==
    /\ last.op = "start"
    /\ \E c \in Contents, t \in Texts \ {<<>>} :
           DynamicApi("greet", Some([text |-> t]), [ok |-> TRUE, content |-> c], TRUE)

SpecNorm == InitNorm /\ [][NextNorm]_vars

\* the settings page and the connectivity test, from any settings file
InitSink ==
    \E sysFile \in {NoFile} \cup {File(s) : s \in Settings}, connOk \in BOOLEAN :
        Boot(<<>>, sysFile, connOk)

NextSink ==
    \/ \E d \in SettingsUpdates, fault \in {"none", "open", "write"}, connOk \in BOOLEAN :
            UpdateSystemConfig(d, fault, connOk)
    \/ \E connOk \in BOOLEAN : TestMongodb(connOk)

SpecSink == InitSink /\ [][NextSink]_vars

\* the config pages, from an empty store
InitStore == Boot(<<>>, NoFile, FALSE)

NextStore ==
    \/ \E d \in StoreData : AddConfig(d)
    \/ \E n \in Names, d \in StoreData : EditConfig(n, d)
    \/ \E n \in Names : DeleteConfig(n)
    \/ Tick

SpecStore == InitStore /\ [][NextStore]_vars

(* ------------------------------- claims ------------------------------- *)

\* the last request was a dispatch that resolved to an enabled config
Resolved(l) == l.op = "dispatch" /\ l.config_name # None

\* store grew from old by exactly one entry, which carries the resolved config
\* name and the response handed to the caller, success exactly for the 200
\* response and an error message exactly when not successful
OneEntryAppended(old, store, l) ==
    /\ Len(store) = Len(old) + 1
    /\ SubSeq(store, 1, Len(old)) = old
    /\ LET e == store[Len(store)]
       IN  /\ e.config_name = l.config_name[1]
           /\ e.request_data = l.request
           /\ e.response_data = l.body
           /\ e.success = (l.status = 200)
           /\ (e.error_message # None) = ~e.success

\* C1 as stated: every dispatch that resolves to an enabled config appends
\* exactly one CallLog entry when logging is enabled and the sink holds a
\* collection; the entry carries the resolved name and the determined response,
\* with success exactly for the 200 response and error_message exactly otherwise
C1_AsStated ==
    [][(Resolved(last') /\ config.log_enabled /\ collection # None)
         => OneEntryAppended(logs, logs', last')]_vars

\* C1 amended: a resolved dispatch makes one log attempt; with logging enabled
\* and a collection held the attempt either appends exactly one such entry or,
\* when the insert fails, appends none; with logging disabled or no collection
\* nothing is appended
C1_OneEntryUnlessInsertFails ==
    [][Resolved(last') =>
         /\ last'.log \in {"written", "failed", "skipped"}
         /\ (last'.log = "skipped") = ~(config.log_enabled /\ collection # None)
         /\ IF last'.log = "written" THEN OneEntryAppended(logs, logs', last')
            ELSE logs' = logs]_vars

\* C1 witness: an upstream failure answered 500 was logged with success false
C1_Witness ==
    /\ Resolved(last) /\ last.status = 500 /\ last.llm_called /\ last.log = "written"
    /\ Len(logs) = 1 /\ ~logs[1].success /\ logs[1].error_message # None

\* the text of a request: absent body and absent key read as no text
TextOf(body) == IF body # None /\ "text" \in DOMAIN body[1] THEN body[1].text ELSE <<>>

\* C3 as stated: every dispatch to an enabled config with a non-empty text
\* returns a body whose original_text is the input text
C3_AsStated ==
    (Resolved(last) /\ TextOf(last.request) # <<>>)
        => /\ "original_text" \in DOMAIN last.body
           /\ last.body["original_text"] = TextOf(last.request)

\* C3 amended: the body carries original_text equal to the input text when the
\* response is the 200 response; otherwise the dispatch of a non-empty text
\* ends 500 with an error body that has no original_text
C3_OriginalTextOnSuccess ==
    (Resolved(last) /\ TextOf(last.request) # <<>>)
        => IF last.status = 200
           THEN /\ "original_text" \in DOMAIN last.body
                /\ last.body["original_text"] = TextOf(last.request)
           ELSE /\ last.status = 500
                /\ DOMAIN last.body = {"error"}

\* C3 witness: the reply object had its own original_text, which was overwritten
C3_Witness ==
    /\ Resolved(last) /\ last.status = 200
    /\ last.reply # None /\ last.reply[1].content = <<"{", "o", "}">>
    /\ last.body["original_text"] = <<"h", "i">>

\* the request carries a JSON object whose text is empty or missing
EmptyText(l) == Resolved(l) /\ l.request # None /\ TextOf(l.request) = <<>>

\* C4 as stated: a request to an enabled config with empty or missing text ends
\* 400 with an error field, without an LLM call, and a log entry with success
\* false is recorded
C4_AsStated ==
    [][EmptyText(last') =>
         /\ last'.status = 400 /\ "error" \in DOMAIN last'.body /\ ~last'.llm_called
         /\ OneEntryAppended(logs, logs', last')
         /\ ~logs'[Len(logs')].success]_vars

\* C4 amended: such a request ends 400 with an error field and without an LLM
\* call, and one log attempt is made; the entry, with success false, is
\* recorded when logging is enabled, a collection is held and the insert
\* succeeds, and nothing is recorded otherwise
C4_EmptyTextRejectedAndLogAttempted ==
    [][EmptyText(last') =>
         /\ last'.status = 400 /\ "error" \in DOMAIN last'.body /\ ~last'.llm_called
         /\ last'.log # "none"
         /\ (last'.log = "skipped") = ~(config.log_enabled /\ collection # None)
         /\ IF last'.log = "written"
            THEN OneEntryAppended(logs, logs', last') /\ ~logs'[Len(logs')].success
            ELSE logs' = logs]_vars

\* C4 witness: an empty text was rejected with 400 and logged with success false
C4_Witness ==
    /\ EmptyText(last) /\ last.status = 400 /\ last.log = "written"
    /\ Len(logs) = 1 /\ ~logs[1].success

\* some stored config is enabled and answers to the target of the request
EnabledMatch(l) ==
    \E i \in 1..Len(configs) :
        /\ IF l.route = "api" THEN configs[i].name = l.target
           ELSE configs[i].cfg.path = l.target
        /\ configs[i].cfg.enabled # Some(FALSE)

\* C5: a request to a name or legacy path that no enabled config matches ends
\* 404 with an error body, and the LLM is not called
C5_NotFound ==
    (last.op = "dispatch" /\ ~EnabledMatch(last))
        => /\ last.status = 404
           /\ "error" \in DOMAIN last.body
           /\ ~last.llm_called

\* C5 witness: a legacy path whose only config is disabled was answered 404
C5_Witness ==
    /\ last.op = "dispatch" /\ last.route = "legacy" /\ last.status = 404
    /\ ~EnabledMatch(last)
    /\ \E i \in 1..Len(configs) : configs[i].cfg.path = last.target

\* the response the try/except of dynamic_api determines for the last request
Determined(l) ==
    try_block(get_config(configs, l.config_name[1])[1], l.request,
              IF l.reply = None THEN [ok |-> FALSE, content |-> <<>>] ELSE l.reply[1])

\* C6: the status and body handed to the caller are those the try/except
\* determined, whether the log write succeeded, failed or was skipped
C6_LogFaultNeverSurfaces ==
    Resolved(last)
        => /\ last.status = Determined(last).status
           /\ last.body = Determined(last).response_data
           /\ last.log \in {"written", "failed", "skipped"}

\* C6 witness: the insert failed and the caller still got the 200 response
C6_Witness ==
    /\ Resolved(last) /\ last.log = "failed" /\ last.status = 200
    /\ "original_text" \in DOMAIN last.body /\ logs = <<>>

\* C7 as stated: every dispatch, the one that ends in 404 included, triggers
\* one log attempt
C7_AsStated == last.op = "dispatch" => last.log # "none"

\* C7 amended: a dispatch triggers one log attempt exactly when it resolves
\* to an enabled config (200, 400 or 500); a dispatch that ends in 404, by name
\* or by legacy path, triggers none
C7_LogAttemptUnlessNotFound ==
    last.op = "dispatch"
        => /\ (last.log = "none") = (last.status = 404)
           /\ (last.status = 404) = ~Resolved(last)
           /\ last.status \in {200, 400, 404, 500}

\* C7 witness: with logging enabled and a collection held, a legacy request
\* whose path belongs to a disabled config ended 404 without a log attempt
C7_Witness ==
    /\ config.log_enabled /\ collection # None
    /\ last.op = "dispatch" /\ last.route = "legacy" /\ last.status = 404
    /\ last.log = "none" /\ logs = <<>>
    /\ \E i \in 1..Len(configs) : configs[i].cfg.path = last.target

\* C8: an add whose name is empty, absent or already stored leaves the store
\* as it was and reports failure
C8_AddExistingIsNoOp ==
    [][\A d \in StoreData :
         (/\ AddConfig(d)
          /\ \/ d.name = None
             \/ d.name[1] = ""
             \/ \E i \in 1..Len(configs) : configs[i].name = d.name[1])
           => (configs' = configs /\ ~last'.success)]_vars

\* C8 witness: an add was refused for a name whose entry had been edited since
\* it was created
C8_Witness ==
    /\ last.op = "add_config" /\ ~last.success /\ last.name # None
    /\ \E i \in 1..Len(configs) :
          /\ configs[i].name = last.name[1]
          /\ configs[i].cfg.created_at < configs[i].cfg.updated_at
          /\ configs[i].cfg.updated_at < now

\* the settings in memory are the ones on disk and in the openai globals
Applied ==
    /\ config_file = File(config)
    /\ openai = [api_base |-> config.openai_api_url, api_key |-> config.openai_api_key]

\* C9 as stated: when the update returns, either the settings are persisted and
\* applied and the reconnect has finished without failure, or the update
\* reports failure
C9_AsStated ==
    last.op = "update_system_config"
        => \/ ~last.success
           \/ Applied /\ last.attempt \in {"connected", "skipped"}

\* C9 amended: an update that reports success has persisted and applied the
\* settings and has finished its reconnect attempt; a failed connection is not
\* surfaced (success is still reported and the sink holds nothing); an update
\* that reports failure made no reconnect attempt
C9_UpdateSynchronousConnectFailureSwallowed ==
    last.op = "update_system_config"
        => /\ last.success => (Applied /\ last.attempt \in {"connected", "failed", "skipped"})
           /\ last.attempt = "failed" => (last.success /\ client = None /\ collection = None)
           /\ last.attempt = "connected" =>
                 (collection = Some(config.mongodb_url) /\ config.log_enabled)
           /\ ~last.success => last.attempt = "none"

\* C9 witness: the update reported success although the connection failed
C9_Witness ==
    /\ last.op = "update_system_config" /\ last.success /\ last.attempt = "failed"
    /\ collection = None /\ openai.api_base = "u2" /\ config_file.data.openai_api_url = "u2"

\* C10: the sink holds a collection only if its client is the open one of the
\* latest connection attempt, and the connectivity test reports success only
\* for a connection it has just made
C10_AsStated ==
    /\ collection # None => (client # None /\ ~client[1].closed)
    /\ (last.op = "test_mongodb" /\ last.success) => last.attempt = "connected"

\* C2: the 200 response is the parsed object with original_text set when the
\* first brace-delimited substring of the reply is a well-formed JSON object,
\* the empty object included, and the wrapped raw reply otherwise
C2_AsStated ==
    (Resolved(last) /\ last.status = 200)
        => LET content == last.reply[1].content
               text == TextOf(last.request)
               m == re_search(content)
           IN  IF m # None /\ json_loads(m[1]) # None
               THEN last.body = DictSet(json_loads(m[1])[1], "original_text", text)
               ELSE last.body = [response |-> content, original_text |-> text]

====
